---- MODULE Spec2Model ----
(***************************************************************************)
(* Model of main.py: get_transactions (paginated fetch),                   *)
(* calculate_daily_amounts (daily bucketing with gap filling) and          *)
(* generate_report (one report file per account).                          *)
(*                                                                         *)
(* Representation of Python values:                                        *)
(*   - a date string 'dd-mm-YYYY' is the tuple <<dd, mm, YYYY>>; the empty *)
(*     string is <<>>;                                                     *)
(*   - a timestamp string 'dd.mm.YYYY HH:MM:SS' is <<dd, mm, YYYY, HH, MM, *)
(*     SS>>;                                                               *)
(*   - a datetime is [year, month, day, sod] (sod = seconds of the day), a *)
(*     date is [year, month, day];                                         *)
(*   - the output date string 'YYYY-MM-DD' is <<YYYY, MM, DD>>;            *)
(*   - a decimal string is <<sign, whole, cents>> ("-50.25" is            *)
(*     <<-1, 50, 25>>), a non-numeric string is <<>>; the number float()   *)
(*     yields is kept in minor units (hundredths), so sums are exact;      *)
(*   - None is the value None below, distinct from every token string.     *)
(***************************************************************************)
EXTENDS Integers, Sequences, FiniteSets, TLC

VARIABLES
    accounts,      \* generate_report argument: list of account numbers
    start_date,    \* argument: 'dd-mm-YYYY'
    end_date,      \* argument: 'dd-mm-YYYY' or '' (current date)
    token,         \* argument: authorization token
    format,        \* argument: 'json' / 'csv'
    now,           \* what datetime.now() returns
    pc,            \* position of the program
    idx,           \* position of the for loop of generate_report in accounts
    transactions,  \* get_transactions: accumulated list / calculate_daily_amounts: argument
    follow_id,     \* get_transactions: cursor
    requests,      \* requests issued by the current get_transactions call
    responses,     \* responses received by the current get_transactions call
    calls,         \* arguments of every get_transactions call made so far
    returns,       \* list returned by every completed get_transactions call
    files,         \* files written so far, in order
    daily_amounts  \* value returned by the last calculate_daily_amounts call

vars == <<accounts, start_date, end_date, token, format, now, pc, idx,
          transactions, follow_id, requests, responses, calls, returns,
          files, daily_amounts>>

\* ---------------------------------------------------------------------------
\* Bounds of the model
\* ---------------------------------------------------------------------------
MaxTx == 2          \* longest transaction list given to calculate_daily_amounts
MaxPages == 2       \* most requests of one get_transactions call (fetch model)
MaxPageLen == 1     \* most transactions in one response
MaxAccounts == 2    \* longest account list given to generate_report
MaxReportPages == 1 \* most requests of one get_transactions call (report model)

None == "<None>"

\* ---------------------------------------------------------------------------
\* datetime: calendar arithmetic (proleptic Gregorian, as datetime does)
\* ---------------------------------------------------------------------------
Years == 2023..2025

is_leap(y) == y % 4 = 0 /\ (y % 100 # 0 \/ y % 400 = 0)

days_in_month(y, m) ==
    IF m = 2 THEN (IF is_leap(y) THEN 29 ELSE 28)
    ELSE IF m \in {4, 6, 9, 11} THEN 30 ELSE 31

days_before_year(y) ==
    (y - 1) * 365 + ((y - 1) \div 4) - ((y - 1) \div 100) + ((y - 1) \div 400)

RECURSIVE days_before_month(_, _)
days_before_month(y, m) ==
    IF m = 1 THEN 0 ELSE days_before_month(y, m - 1) + days_in_month(y, m - 1)

toordinal(d) == days_before_year(d.year) + days_before_month(d.year, d.month) + d.day

fromordinal(n) ==
    LET y == CHOOSE yy \in Years :
                 days_before_year(yy) < n /\ n <= days_before_year(yy + 1)
        r == n - days_before_year(y)
        m == CHOOSE mm \in 1..12 :
                 days_before_month(y, mm) < r
                 /\ r <= days_before_month(y, mm) + days_in_month(y, mm)
    IN  [year |-> y, month |-> m, day |-> r - days_before_month(y, m)]

\* strptime(s, "%d-%m-%Y") raises ValueError unless s names a calendar day
date_string_ok(s) ==
    /\ Len(s) = 3
    /\ s[2] \in 1..12
    /\ s[1] \in 1..days_in_month(s[3], s[2])

strptime_date(s) == [year |-> s[3], month |-> s[2], day |-> s[1], sod |-> 0]

\* strptime(s, "%d.%m.%Y %H:%M:%S")
timestamp_ok(s) ==
    /\ Len(s) = 6
    /\ s[2] \in 1..12
    /\ s[1] \in 1..days_in_month(s[3], s[2])
    /\ s[4] \in 0..23 /\ s[5] \in 0..59 /\ s[6] \in 0..61

strptime_timestamp(s) ==
    [year |-> s[3], month |-> s[2], day |-> s[1],
     sod |-> s[4] * 3600 + s[5] * 60 + s[6]]

\* datetime.date()
date_of(dt) == [year |-> dt.year, month |-> dt.month, day |-> dt.day]

\* (a - b).days for two datetimes: timedelta keeps 0 <= seconds < 86400
timedelta_days(a, b) ==
    ((toordinal(a) - toordinal(b)) * 86400 + a.sod - b.sod) \div 86400

\* dt + timedelta(n)
plus_days(dt, n) ==
    LET d == fromordinal(toordinal(dt) + n)
    IN  [year |-> d.year, month |-> d.month, day |-> d.day, sod |-> dt.sod]

\* date.strftime("%Y-%m-%d")
strftime_date(d) == <<d.year, d.month, d.day>>

\* date.__lt__ : compares (year, month, day)
date_lt(a, b) ==
    \/ a.year < b.year
    \/ a.year = b.year /\ a.month < b.month
    \/ a.year = b.year /\ a.month = b.month /\ a.day < b.day

\* float(s) of a decimal string, in minor units
float_ok(s) == Len(s) = 3

float_(s) == s[1] * (s[2] * 100 + s[3])

\* ---------------------------------------------------------------------------
\* calculate_daily_amounts
\* ---------------------------------------------------------------------------
ZeroTotals == [money_in |-> 0, money_out |-> 0, money_in_UAH |-> 0, money_out_UAH |-> 0]

tx_date(t) == date_of(strptime_timestamp(t.DATE_TIME_DAT_OD_TIM_P))

\* mutant: the reporting-currency amount is added to the account-currency total
add_transaction_mixed_currency(daily_totals, t) ==
    LET date == tx_date(t)
        amount == float_(t.SUM)
        amount_uah == float_(t.SUM_E)
        cur == IF date \in DOMAIN daily_totals THEN daily_totals[date] ELSE ZeroTotals
        new == IF t.TRANTYPE = "C"
               THEN [cur EXCEPT !.money_in = @ + amount_uah, !.money_in_UAH = @ + amount_uah]
               ELSE [cur EXCEPT !.money_out = @ + amount, !.money_out_UAH = @ + amount_uah]
    IN  [d \in (DOMAIN daily_totals) \cup {date} |->
            IF d = date THEN new ELSE daily_totals[d]]

\* mutant: an outflow is subtracted instead of added
add_transaction_outflow_subtracted(daily_totals, t) ==
    LET date == tx_date(t)
        amount == float_(t.SUM)
        amount_uah == float_(t.SUM_E)
        cur == IF date \in DOMAIN daily_totals THEN daily_totals[date] ELSE ZeroTotals
        new == IF t.TRANTYPE = "C"
               THEN [cur EXCEPT !.money_in = @ + amount, !.money_in_UAH = @ + amount_uah]
               ELSE [cur EXCEPT !.money_out = @ - amount, !.money_out_UAH = @ - amount_uah]
    IN  [d \in (DOMAIN daily_totals) \cup {date} |->
            IF d = date THEN new ELSE daily_totals[d]]

\* one iteration of the for loop over the transactions (defaultdict access
\* creates the zero record of a day seen for the first time)
add_transaction(daily_totals, t) ==
    LET date == tx_date(t)
        amount == float_(t.SUM)
        amount_uah == float_(t.SUM_E)
        cur == IF date \in DOMAIN daily_totals THEN daily_totals[date] ELSE ZeroTotals
        new == IF t.TRANTYPE = "C"
               THEN [cur EXCEPT !.money_in = @ + amount, !.money_in_UAH = @ + amount_uah]
               ELSE [cur EXCEPT !.money_out = @ + amount, !.money_out_UAH = @ + amount_uah]
    IN  [d \in (DOMAIN daily_totals) \cup {date} |->
            IF d = date THEN new ELSE daily_totals[d]]

RECURSIVE accumulate(_, _)
accumulate(daily_totals, txs) ==
    IF txs = <<>> THEN daily_totals
    ELSE accumulate(add_transaction(daily_totals, Head(txs)), Tail(txs))

\* mutant: only the days of the nominal range are kept
fill_gaps_clipped(daily_totals, start, day_count) ==
    LET days == {date_of(plus_days(start, n)) : n \in 0..(day_count - 1)}
    IN  [d \in days |->
            IF d \in DOMAIN daily_totals THEN daily_totals[d] ELSE ZeroTotals]

\* the gap-filling loop over range(day_count)
fill_gaps(daily_totals, start, day_count) ==
    LET days == {date_of(plus_days(start, n)) : n \in 0..(day_count - 1)}
    IN  [d \in (DOMAIN daily_totals) \cup days |->
            IF d \in DOMAIN daily_totals THEN daily_totals[d] ELSE ZeroTotals]

\* mutant: the items are ordered by (day, month, year), as the 'dd-mm-YYYY'
\* strings would be
RECURSIVE sorted_items_day_first(_)
sorted_items_day_first(daily_totals) ==
    IF DOMAIN daily_totals = {} THEN <<>>
    ELSE LET before(a, b) ==
                 \/ a.day < b.day
                 \/ a.day = b.day /\ a.month < b.month
                 \/ a.day = b.day /\ a.month = b.month /\ a.year < b.year
             first == CHOOSE d \in DOMAIN daily_totals :
                          \A e \in DOMAIN daily_totals : ~before(e, d)
             rest == [d \in (DOMAIN daily_totals) \ {first} |-> daily_totals[d]]
         IN  <<[date |-> first, totals |-> daily_totals[first]]>>
             \o sorted_items_day_first(rest)

\* sorted(daily_totals.items()): the keys are distinct, so the order is the
\* order of the dates
RECURSIVE sorted_items(_)
sorted_items(daily_totals) ==
    IF DOMAIN daily_totals = {} THEN <<>>
    ELSE LET first == CHOOSE d \in DOMAIN daily_totals :
                          \A e \in DOMAIN daily_totals : ~date_lt(e, d)
             rest == [d \in (DOMAIN daily_totals) \ {first} |-> daily_totals[d]]
         IN  <<[date |-> first, totals |-> daily_totals[first]]>> \o sorted_items(rest)

effective_end(end_date_, now_) ==
    IF end_date_ # <<>> THEN strptime_date(end_date_) ELSE now_

\* TRUE when the call raises (ValueError of strptime or float)
calculate_daily_amounts_raises(txs, start_date_, end_date_) ==
    \/ ~date_string_ok(start_date_)
    \/ end_date_ # <<>> /\ ~date_string_ok(end_date_)
    \/ \E i \in 1..Len(txs) :
          \/ ~timestamp_ok(txs[i].DATE_TIME_DAT_OD_TIM_P)
          \/ ~float_ok(txs[i].SUM)
          \/ ~float_ok(txs[i].SUM_E)

\* the list the call returns when it does not raise
calculate_daily_amounts(txs, start_date_, end_date_, now_) ==
    LET start == strptime_date(start_date_)
        end == effective_end(end_date_, now_)
        day_count == timedelta_days(end, start) + 1
        daily_totals == fill_gaps(accumulate(<<>>, txs), start, day_count)
        sorted_totals == sorted_items(daily_totals)
    IN  [i \in 1..Len(sorted_totals) |->
            [date |-> strftime_date(sorted_totals[i].date),
             money_in |-> sorted_totals[i].totals.money_in,
             money_out |-> sorted_totals[i].totals.money_out,
             money_in_UAH |-> sorted_totals[i].totals.money_in_UAH,
             money_out_UAH |-> sorted_totals[i].totals.money_out_UAH]]

\* ---------------------------------------------------------------------------
\* Inputs of the model
\* ---------------------------------------------------------------------------
Leap29 == <<29, 2, 2024>>
Mar01 == <<1, 3, 2024>>
Mar02 == <<2, 3, 2024>>

StartDates == {Leap29, Mar01}
EndDates == {<<>>, Leap29, Mar01, Mar02}
Nows == {[year |-> 2024, month |-> 3, day |-> 1, sod |-> 45296]}

Timestamps ==
    {<<29, 2, 2024, 12, 0, 0>>, <<1, 3, 2024, 0, 0, 0>>, <<1, 3, 2024, 23, 59, 59>>,
     <<2, 3, 2024, 12, 0, 0>>, <<30, 2, 2024, 12, 0, 0>>}

\* <<SUM, SUM_E>>: "100.00"/"2700.00", "-50.00"/"-1350.00", "abc"/"1.00"
Amounts ==
    {<< <<1, 100, 0>>, <<1, 2700, 0>> >>,
     << <<-1, 50, 0>>, <<-1, 1350, 0>> >>,
     << <<>>, <<1, 1, 0>> >>}

AggTransactions ==
    {[DATE_TIME_DAT_OD_TIM_P |-> ts, SUM |-> a[1], SUM_E |-> a[2],
      TRANTYPE |-> tt, PR_PR |-> "r"] :
        ts \in Timestamps, a \in Amounts, tt \in {"C", "D"}}

\* transactions the server sends: confirmed, unconfirmed, and confirmed with a
\* timestamp that names no calendar day (30 February)
tA == [DATE_TIME_DAT_OD_TIM_P |-> <<29, 2, 2024, 12, 0, 0>>, SUM |-> <<1, 100, 0>>,
       SUM_E |-> <<1, 2700, 0>>, TRANTYPE |-> "C", PR_PR |-> "r", AUT_MY_NAM |-> "Acme"]
tB == [DATE_TIME_DAT_OD_TIM_P |-> <<1, 3, 2024, 0, 0, 0>>, SUM |-> <<1, 7, 50>>,
       SUM_E |-> <<1, 202, 50>>, TRANTYPE |-> "D", PR_PR |-> "p", AUT_MY_NAM |-> "Acme"]
tD == [DATE_TIME_DAT_OD_TIM_P |-> <<30, 2, 2024, 12, 0, 0>>, SUM |-> <<1, 200, 0>>,
       SUM_E |-> <<1, 5400, 0>>, TRANTYPE |-> "D", PR_PR |-> "r"]
ServerTransactions == {tA, tB, tD}

SeqsUpTo(S, n) == UNION {[1..k -> S] : k \in 0..n}

Tokens == {None, "p1"}
Statuses == {"SUCCESS", "ERROR"}

\* every response the server may give (the JSON body of the reply)
Responses ==
    [status : Statuses,
     transactions : SeqsUpTo(ServerTransactions, MaxPageLen),
     exist_next_page : BOOLEAN,
     next_page_id : Tokens]

AccountNumbers == {"UA01", "UA02"}
Formats == {"json", "CSV"}

\* str.lower()
lower(s) == IF s = "CSV" THEN "csv" ELSE s

\* ---------------------------------------------------------------------------
\* get_transactions
\* ---------------------------------------------------------------------------
\* f"{follow_id if follow_id else ''}"
follow_id_param(f) == IF f = None \/ f = "" THEN "" ELSE f

\* the request of one loop iteration (URL parameters and the token header)
request_of(account, f) ==
    [acc |-> account, startDate |-> start_date, endDate |-> end_date,
     followId |-> follow_id_param(f), token |-> token]

\* mutant: the page is taken whole
confirmed_unfiltered(page) == page

\* [t for t in data["transactions"] if t["PR_PR"] == "r"]
confirmed(page) == SelectSeq(page, LAMBDA t : t.PR_PR = "r")

\* data["status"] != "SUCCESS"
failed(data) == data.status # "SUCCESS"

\* mutant: the status is not looked at before the page is added
accumulated_ignoring_status(txs, data) == txs \o confirmed(data.transactions)

\* the accumulator after a response: a failed response adds nothing
accumulated(txs, data) ==
    IF failed(data) THEN txs ELSE txs \o confirmed(data.transactions)

\* mutant: an empty page ends the loop too
stops_after_empty_page(data) ==
    failed(data) \/ ~data.exist_next_page \/ data.transactions = <<>>

\* mutant: only a failure ends the loop
stops_after_failure_only(data) == failed(data)

\* the loop is left on a failure status or when no page follows
stops_after(data) == failed(data) \/ ~data.exist_next_page

\* mutant: the cursor is never replaced
next_follow_id_kept(f, data) == f

\* the cursor after a response
next_follow_id(f, data) == IF stops_after(data) THEN f ELSE data.next_page_id

\* the call of get_transactions in generate_report: the locals are initialised
Call ==
    /\ pc = "for"
    /\ idx <= Len(accounts)
    /\ transactions' = <<>>
    /\ follow_id' = None
    /\ requests' = <<>>
    /\ responses' = <<>>
    /\ calls' = Append(calls, [account |-> accounts[idx], start_date |-> start_date,
                               end_date |-> end_date, token |-> token])
    /\ pc' = "while"
    /\ UNCHANGED <<accounts, start_date, end_date, token, format, now, idx,
                   returns, files, daily_amounts>>

\* one iteration of the while loop: the request, the server's reply and what
\* the code does with it, up to the return when the loop is left; cap bounds
\* the requests of one call in the model
Page(cap) ==
    /\ pc = "while"
    /\ Len(requests) < cap
    /\ \E data \in Responses :
          /\ requests' = Append(requests, request_of(accounts[idx], follow_id))
          /\ responses' = Append(responses, data)
          /\ transactions' = accumulated(transactions, data)
          /\ follow_id' = next_follow_id(follow_id, data)
          /\ pc' = IF stops_after(data) THEN "return" ELSE "while"
          /\ returns' = IF stops_after(data) THEN Append(returns, transactions')
                        ELSE returns
    /\ UNCHANGED <<accounts, start_date, end_date, token, format, now, idx,
                   calls, files, daily_amounts>>

\* ---------------------------------------------------------------------------
\* generate_report
\* ---------------------------------------------------------------------------
account_name(txs) ==
    IF "AUT_MY_NAM" \in DOMAIN txs[1] THEN txs[1].AUT_MY_NAM ELSE "Unknown"

extension(fmt) == IF lower(fmt) = "csv" THEN "csv" ELSE "json"

\* f"{account_name}_{account}_report_{start_date}_{end_date}.{ext}"
file_name(txs, account, fmt) ==
    <<account_name(txs), account, "report", start_date, end_date, extension(fmt)>>

\* mutant: break instead of continue
Skip_breaks ==
    /\ pc = "return"
    /\ transactions = <<>>
    /\ pc' = "done"
    /\ UNCHANGED <<accounts, start_date, end_date, token, format, now, idx,
                   transactions, follow_id, requests, responses, calls, returns,
                   files, daily_amounts>>

\* get_transactions returned nothing: warning, continue
Skip ==
    /\ pc = "return"
    /\ transactions = <<>>
    /\ idx' = idx + 1
    /\ pc' = "for"
    /\ UNCHANGED <<accounts, start_date, end_date, token, format, now,
                   transactions, follow_id, requests, responses, calls, returns,
                   files, daily_amounts>>

\* calculate_daily_amounts returns and the file is written
Write ==
    /\ pc = "return"
    /\ transactions # <<>>
    /\ ~calculate_daily_amounts_raises(transactions, start_date, end_date)
    /\ daily_amounts' = calculate_daily_amounts(transactions, start_date, end_date, now)
    /\ files' = Append(files, [name |-> file_name(transactions, accounts[idx], format),
                               rows |-> daily_amounts'])
    /\ idx' = idx + 1
    /\ pc' = "for"
    /\ UNCHANGED <<accounts, start_date, end_date, token, format, now,
                   transactions, follow_id, requests, responses, calls, returns>>

\* calculate_daily_amounts raises: nothing catches it, generate_report ends
Raise ==
    /\ pc = "return"
    /\ transactions # <<>>
    /\ calculate_daily_amounts_raises(transactions, start_date, end_date)
    /\ pc' = "raised"
    /\ UNCHANGED <<accounts, start_date, end_date, token, format, now, idx,
                   transactions, follow_id, requests, responses, calls, returns,
                   files, daily_amounts>>

\* the for loop is exhausted
Finish ==
    /\ pc = "for"
    /\ idx > Len(accounts)
    /\ pc' = "done"
    /\ UNCHANGED <<accounts, start_date, end_date, token, format, now, idx,
                   transactions, follow_id, requests, responses, calls, returns,
                   files, daily_amounts>>

InitReport(lists, ends, formats) ==
    /\ accounts \in lists
    /\ start_date = Leap29
    /\ end_date \in ends
    /\ token = "secret"
    /\ format \in formats
    /\ now \in Nows
    /\ pc = "for"
    /\ idx = 1
    /\ transactions = <<>>
    /\ follow_id = None
    /\ requests = <<>>
    /\ responses = <<>>
    /\ calls = <<>>
    /\ returns = <<>>
    /\ files = <<>>
    /\ daily_amounts = <<>>

\* generate_report on a list of accounts
Init == InitReport(SeqsUpTo(AccountNumbers, MaxAccounts), {Mar01}, {"CSV"})

Next == Call \/ Page(MaxReportPages) \/ Skip \/ Write \/ Raise \/ Finish

Spec == Init /\ [][Next]_vars

\* one account: a single get_transactions call, followed to its end
InitFetch == InitReport({<<"UA01">>}, {<<>>, Mar01}, Formats)

NextFetch == Call \/ Page(MaxPages) \/ Skip \/ Write \/ Raise \/ Finish

SpecFetch == InitFetch /\ [][NextFetch]_vars

\* ---------------------------------------------------------------------------
\* calculate_daily_amounts called on its own
\* ---------------------------------------------------------------------------
InitAgg ==
    /\ transactions \in SeqsUpTo(AggTransactions, MaxTx)
    /\ start_date \in StartDates
    /\ end_date \in EndDates
    /\ now \in Nows
    /\ pc = "call"
    /\ daily_amounts = <<>>
    /\ accounts = <<>>
    /\ token = ""
    /\ format = "json"
    /\ idx = 1
    /\ follow_id = None
    /\ requests = <<>>
    /\ responses = <<>>
    /\ calls = <<>>
    /\ returns = <<>>
    /\ files = <<>>

AggReturn ==
    /\ pc = "call"
    /\ ~calculate_daily_amounts_raises(transactions, start_date, end_date)
    /\ daily_amounts' = calculate_daily_amounts(transactions, start_date, end_date, now)
    /\ pc' = "returned"
    /\ UNCHANGED <<accounts, start_date, end_date, token, format, now, idx,
                   transactions, follow_id, requests, responses, calls, returns, files>>

AggRaise ==
    /\ pc = "call"
    /\ calculate_daily_amounts_raises(transactions, start_date, end_date)
    /\ pc' = "raised"
    /\ UNCHANGED <<accounts, start_date, end_date, token, format, now, idx,
                   transactions, follow_id, requests, responses, calls, returns,
                   files, daily_amounts>>

NextAgg == AggReturn \/ AggRaise

SpecAgg == InitAgg /\ [][NextAgg]_vars

\* ---------------------------------------------------------------------------
\* Properties of calculate_daily_amounts (checked under SpecAgg)
\* ---------------------------------------------------------------------------
AggReturned == pc = "returned"

\* the calendar day (as an ordinal) an output record is dated
OutDay(r) == toordinal([year |-> r.date[1], month |-> r.date[2], day |-> r.date[3]])

StartOrd == toordinal(strptime_date(start_date))
EndOrd == IF end_date = <<>> THEN toordinal(now) ELSE toordinal(strptime_date(end_date))
DayCount == EndOrd - StartOrd + 1
RangeDays == StartOrd..EndOrd

TxDay(t) == toordinal(strptime_timestamp(t.DATE_TIME_DAT_OD_TIM_P))
TxDays == {TxDay(transactions[i]) : i \in 1..Len(transactions)}
OutDays == {OutDay(daily_amounts[i]) : i \in 1..Len(daily_amounts)}

RangeOnce == \A d \in RangeDays :
                Cardinality({i \in 1..Len(daily_amounts) : OutDay(daily_amounts[i]) = d}) = 1

Ascending == \A i, j \in 1..Len(daily_amounts) :
                i < j => OutDay(daily_amounts[i]) < OutDay(daily_amounts[j])

\* C1 as stated: for a valid range (start <= end) the output has exactly
\* day_count records, holds every day of the range exactly once and is sorted
\* ascending by date without duplicates, whatever the transactions are.
C1_AsStated ==
    (AggReturned /\ StartOrd <= EndOrd) =>
        /\ Len(daily_amounts) = DayCount
        /\ RangeOnce
        /\ Ascending

\* C1 amended: for a valid range the output holds every day of the range
\* exactly once and is strictly ascending by date (so no date is repeated);
\* its length is day_count plus the number of distinct transaction days
\* outside the range, hence exactly day_count when every transaction is dated
\* within the range.
C1_RangeCoveredSorted ==
    (AggReturned /\ StartOrd <= EndOrd) =>
        /\ RangeOnce
        /\ Ascending
        /\ Len(daily_amounts) = DayCount + Cardinality(TxDays \ RangeDays)
        /\ (TxDays \subseteq RangeDays => Len(daily_amounts) = DayCount)

\* two transactions on different days of a range of two days or more
C1_Witness ==
    /\ AggReturned
    /\ StartOrd < EndOrd
    /\ Cardinality(TxDays) = 2
    /\ TxDays \subseteq RangeDays
    /\ Len(daily_amounts) = DayCount

\* the sum over the transactions of one day and one direction
RECURSIVE DaySum(_, _, _, _)
DaySum(txs, day, inflow, uah) ==
    IF txs = <<>> THEN 0
    ELSE LET t == Head(txs)
         IN  (IF TxDay(t) = day /\ ((t.TRANTYPE = "C") <=> inflow)
              THEN float_(IF uah THEN t.SUM_E ELSE t.SUM)
              ELSE 0)
             + DaySum(Tail(txs), day, inflow, uah)

\* C5: in every output record money_in / money_in_UAH are the sums of SUM /
\* SUM_E over that day's transactions with TRANTYPE 'C', and money_out /
\* money_out_UAH the sums over that day's transactions of any other type.
C5_DailySums ==
    AggReturned =>
        \A i \in 1..Len(daily_amounts) :
            LET r == daily_amounts[i]
            IN  /\ r.money_in = DaySum(transactions, OutDay(r), TRUE, FALSE)
                /\ r.money_in_UAH = DaySum(transactions, OutDay(r), TRUE, TRUE)
                /\ r.money_out = DaySum(transactions, OutDay(r), FALSE, FALSE)
                /\ r.money_out_UAH = DaySum(transactions, OutDay(r), FALSE, TRUE)

\* an inflow and an outflow at different times of the same day
C5_Witness ==
    /\ AggReturned
    /\ \E i, j \in 1..Len(transactions) :
          /\ TxDay(transactions[i]) = TxDay(transactions[j])
          /\ transactions[i].DATE_TIME_DAT_OD_TIM_P # transactions[j].DATE_TIME_DAT_OD_TIM_P
          /\ transactions[i].TRANTYPE = "C"
          /\ transactions[j].TRANTYPE # "C"
    /\ \E k \in 1..Len(daily_amounts) :
          daily_amounts[k].money_in # 0 /\ daily_amounts[k].money_out # 0

NonNegativeTotals ==
    \A i \in 1..Len(daily_amounts) :
        /\ daily_amounts[i].money_in >= 0
        /\ daily_amounts[i].money_out >= 0
        /\ daily_amounts[i].money_in_UAH >= 0
        /\ daily_amounts[i].money_out_UAH >= 0

\* C6 as stated: the four totals of every record are non-negative for every
\* list of transactions with signed amounts.
C6_AsStated == AggReturned => NonNegativeTotals

\* C6 amended: the four totals of every record are non-negative when no
\* transaction has a negative SUM or SUM_E.
C6_NonNegativeInputs ==
    (AggReturned /\ \A i \in 1..Len(transactions) :
                        float_(transactions[i].SUM) >= 0
                        /\ float_(transactions[i].SUM_E) >= 0)
        => NonNegativeTotals

\* an outflow and an inflow, both with positive amounts
C6_Witness ==
    /\ AggReturned
    /\ Len(transactions) = 2
    /\ \A i \in 1..Len(transactions) : float_(transactions[i].SUM) > 0
    /\ \E i \in 1..Len(daily_amounts) : daily_amounts[i].money_out > 0
    /\ \E i \in 1..Len(daily_amounts) : daily_amounts[i].money_in > 0

\* C8: the dates of the output are exactly the days of the nominal range
\* (none when end < start) together with the days of the transactions, each
\* once; a day without transaction has four zero totals.
C8_UnionOfDays ==
    AggReturned =>
        /\ OutDays = RangeDays \cup TxDays
        /\ Len(daily_amounts) = Cardinality(RangeDays \cup TxDays)
        /\ \A i \in 1..Len(daily_amounts) :
              OutDay(daily_amounts[i]) \notin TxDays =>
                  /\ daily_amounts[i].money_in = 0
                  /\ daily_amounts[i].money_out = 0
                  /\ daily_amounts[i].money_in_UAH = 0
                  /\ daily_amounts[i].money_out_UAH = 0

\* a transaction dated outside a range that has a day without transaction
C8_Witness ==
    /\ AggReturned
    /\ DayCount >= 2
    /\ TxDays \ RangeDays # {}
    /\ RangeDays \ TxDays # {}
    /\ Len(daily_amounts) = DayCount + 1

\* ---------------------------------------------------------------------------
\* Properties of get_transactions (checked under SpecFetch)
\* ---------------------------------------------------------------------------
InLoop == pc = "while"
FetchOver == Len(calls) > 0 /\ pc # "while"

Last(q) == q[Len(q)]

AllSuccess == \A i \in 1..Len(responses) : responses[i].status = "SUCCESS"

RECURSIVE OnlyR(_)
OnlyR(page) ==
    IF page = <<>> THEN <<>>
    ELSE (IF Head(page).PR_PR = "r" THEN <<Head(page)>> ELSE <<>>) \o OnlyR(Tail(page))

\* the 'r' transactions of the first n responses, in response order
RECURSIVE PagesConcat(_, _)
PagesConcat(resps, n) ==
    IF n = 0 THEN <<>>
    ELSE PagesConcat(resps, n - 1) \o OnlyR(resps[n].transactions)

\* responses with exist_next_page true that precede the first one with false
LeadingNextPages ==
    {j \in 1..Len(responses) : \A i \in 1..j : responses[i].exist_next_page}

\* C2: every request has its response; against a server that answers SUCCESS
\* the accumulated (and returned) list is the 'r' transactions of the pages in
\* response order, the loop is still running only while every response had
\* exist_next_page true, and once it has stopped the number of requests is
\* one more than the number of exist_next_page-true responses before the
\* first false one.
C2_PagesInOrder ==
    /\ Len(requests) = Len(responses)
    /\ AllSuccess =>
          /\ transactions = PagesConcat(responses, Len(responses))
          /\ InLoop => \A i \in 1..Len(responses) : responses[i].exist_next_page
          /\ FetchOver =>
                /\ \E i \in 1..Len(responses) : ~responses[i].exist_next_page
                /\ Len(requests) = 1 + Cardinality(LeadingNextPages)
                /\ Last(returns) = PagesConcat(responses, Len(responses))

\* two successful pages, each with a different confirmed transaction
C2_Witness ==
    /\ FetchOver
    /\ AllSuccess
    /\ Len(requests) = 2
    /\ Len(Last(returns)) = 2
    /\ Last(returns)[1] # Last(returns)[2]

\* C3: a response with a status other than SUCCESS is the last one of the
\* call: no request follows it, the call has returned, and what it returned
\* is the 'r' transactions of the pages before it (nothing on the first page).
C3_FailureStops ==
    \A i \in 1..Len(responses) :
        responses[i].status # "SUCCESS" =>
            /\ i = Len(responses)
            /\ Len(requests) = i
            /\ pc # "while"
            /\ Len(returns) = Len(calls)
            /\ Last(returns) = PagesConcat(responses, i - 1)
            /\ (i = 1 => Last(returns) = <<>>)

\* a failure on the second page, which carries a confirmed transaction,
\* after a first page that had one
C3_Witness ==
    /\ Len(responses) = 2
    /\ responses[2].status # "SUCCESS"
    /\ OnlyR(responses[2].transactions) # <<>>
    /\ Len(Last(returns)) = 1

Count(q, t) == Cardinality({i \in 1..Len(q) : q[i] = t})

RECURSIVE SuccessfulCount(_, _)
SuccessfulCount(n, t) ==
    IF n = 0 THEN 0
    ELSE SuccessfulCount(n - 1, t)
         + (IF responses[n].status = "SUCCESS" THEN Count(responses[n].transactions, t) ELSE 0)

\* C4: every transaction of the accumulated and of every returned list has
\* PR_PR = 'r'; a transaction with another flag occurs in none, and a
\* transaction with flag 'r' occurs as often as in the successful pages.
C4_OnlyConfirmed ==
    /\ \A k \in 1..Len(returns) : \A i \in 1..Len(returns[k]) : returns[k][i].PR_PR = "r"
    /\ \A t \in ServerTransactions :
          Count(transactions, t) =
              IF t.PR_PR = "r" THEN SuccessfulCount(Len(responses), t) ELSE 0

\* successful pages with an unconfirmed and with a confirmed transaction
C4_Witness ==
    /\ FetchOver
    /\ AllSuccess
    /\ \E i \in 1..Len(responses) : \E k \in 1..Len(responses[i].transactions) :
          responses[i].transactions[k].PR_PR # "r"
    /\ Len(Last(returns)) = 1

\* C9: the first request has an empty followId, every later request has the
\* next_page_id of the response just before it (an absent one, None, is sent
\* as the empty followId), and account, dates and token are those of the call
\* in every request.
C9_Cursor ==
    /\ Len(requests) >= 1 => requests[1].followId = ""
    /\ \A i \in 1..(Len(requests) - 1) :
          requests[i + 1].followId =
              IF responses[i].next_page_id = None THEN "" ELSE responses[i].next_page_id
    /\ \A i \in 1..Len(requests) :
          /\ requests[i].acc = Last(calls).account
          /\ requests[i].startDate = Last(calls).start_date
          /\ requests[i].endDate = Last(calls).end_date
          /\ requests[i].token = Last(calls).token

\* a second request that carries the token of the first response
C9_Witness ==
    /\ Len(requests) = 2
    /\ responses[1].next_page_id = "p1"
    /\ requests[2].followId = "p1"

Continues(data) == data.status = "SUCCESS" /\ data.exist_next_page

\* C10: the loop is running exactly as long as every response so far was
\* SUCCESS with exist_next_page true, and it is left only by the step that
\* receives a response with another status or with exist_next_page false;
\* a response that is SUCCESS with exist_next_page true is always followed
\* by the loop still running.
C10_StopsOnlyOnSignal ==
    /\ [](Len(calls) > 0 =>
            (InLoop <=> \A i \in 1..Len(responses) : Continues(responses[i])))
    /\ [][(InLoop /\ ~InLoop') =>
            /\ Len(responses') = Len(responses) + 1
            /\ ~Continues(Last(responses'))]_vars
    /\ [][(InLoop /\ Len(responses') = Len(responses) + 1 /\ Continues(Last(responses')))
            => InLoop']_vars

\* the loop has issued as many requests as the model allows and is running
C10_Witness ==
    /\ InLoop
    /\ Len(requests) = MaxPages
    /\ \A i \in 1..Len(responses) : Continues(responses[i])

\* ---------------------------------------------------------------------------
\* Properties of generate_report (checked under Spec)
\* ---------------------------------------------------------------------------
Terminated == pc \in {"done", "raised"}

FileAccounts == [i \in 1..Len(files) |-> files[i].name[2]]

\* the accounts, in order, among the first n whose fetch returned something
RECURSIVE ExpectedFiles(_)
ExpectedFiles(n) ==
    IF n = 0 THEN <<>>
    ELSE ExpectedFiles(n - 1) \o (IF returns[n] # <<>> THEN <<accounts[n]>> ELSE <<>>)

CallsInOrder ==
    /\ Len(calls) <= Len(accounts)
    /\ \A k \in 1..Len(calls) : calls[k].account = accounts[k]

Malformed(txs) ==
    \E i \in 1..Len(txs) :
        \/ ~timestamp_ok(txs[i].DATE_TIME_DAT_OD_TIM_P)
        \/ ~float_ok(txs[i].SUM)
        \/ ~float_ok(txs[i].SUM_E)

\* C7 as stated: when generate_report has ended, every account of the list
\* has been fetched once, in order, and the files written are those of the
\* accounts whose fetch returned a non-empty list, one each.
C7_AsStated ==
    Terminated =>
        /\ CallsInOrder
        /\ Len(calls) = Len(accounts)
        /\ Len(returns) = Len(accounts)
        /\ FileAccounts = ExpectedFiles(Len(accounts))

\* the fetches whose result generate_report has dealt with
Processed == IF pc \in {"return", "raised"} THEN Len(returns) - 1 ELSE Len(returns)

\* C7 amended: the accounts are fetched in list order, each entry at most
\* once, and all of them when generate_report ends normally; the files
\* written are those of the accounts dealt with whose fetch returned a
\* non-empty list, one each, in order; after an empty fetch the next account
\* is fetched; generate_report ends by an exception only when
\* calculate_daily_amounts raises on a non-empty list with a transaction that
\* does not parse, and then that account has no file and no later account
\* is fetched.
C7_ReportPerAccount ==
    /\ CallsInOrder
    /\ Len(returns) = (IF InLoop THEN Len(calls) - 1 ELSE Len(calls))
    /\ FileAccounts = ExpectedFiles(Processed)
    /\ pc = "done" => Len(calls) = Len(accounts) /\ Len(returns) = Len(accounts)
    /\ pc = "raised" => /\ Last(returns) # <<>>
                        /\ Malformed(Last(returns))
                        /\ Len(calls) = Len(returns)
    /\ \A k \in 1..Processed :
          (returns[k] = <<>> /\ k < Len(accounts)) =>
              Len(calls) > k \/ (pc = "for" /\ idx = k + 1)

\* two accounts: the first has no transaction, the second gets its file
C7_Witness ==
    /\ pc = "done"
    /\ Len(accounts) = 2
    /\ returns[1] = <<>>
    /\ returns[2] # <<>>
    /\ Len(files) = 1
    /\ FileAccounts = <<accounts[2]>>

====
